---- MODULE Spec2Model ----
(***************************************************************************)
(* Govee Life light platform (custom_components/goveelife): the light      *)
(* entity of light.py and the service registration of services.py.         *)
(*                                                                         *)
(* The module holds six state machines over disjoint groups of variables:  *)
(*   Spec        the command dispatcher: async_turn_on / async_turn_off    *)
(*   SpecModes   _init_platform_specific: the supported colour modes       *)
(*   SpecEffect  _init_platform_specific: scenes, and the effect property  *)
(*   SpecRGB     _getRGBfromI / _getIfromRGB                               *)
(*   SpecReg     async_registerService on the event loop                   *)
(*   SpecSetup   async_setup_entry                                         *)
(* Each specification leaves the variables of the others at their initial  *)
(* values.                                                                 *)
(***************************************************************************)
EXTENDS Integers, Sequences, FiniteSets, TLC

VARIABLES
    \* ---- conversions (SpecRGB)
    conv_kind,      \* "I": integer -> triple -> integer, "RGB": triple -> integer -> triple
    conv_src,       \* the input
    conv_mid,       \* the first conversion's result
    conv_out,       \* the second conversion's result
    conv_pc,        \* conversions applied so far
    \* ---- service registration (SpecReg)
    reg_pc,         \* task -> "new" | "sleeping" | "done"
    reg_name,       \* task -> the service name it registers
    services,       \* the host's registry: the set of registered service names
    reg_calls,      \* name -> number of hass.services.async_register calls
    reg_before,     \* the registry before any task ran
    \* ---- light entities (SpecModes, SpecEffect, Spec)
    constructed,                \* entity -> whether GoveeLifeLight(...) has run for it
    device_cfg,                 \* entity -> its capability list (self._device_cfg['capabilities'])
    cls_supported_color_modes,  \* GoveeLifeLight._attr_supported_color_modes, the set bound at class level
    attr_effect_list,           \* entity -> self._attr_effect_list
    scene_mapping,              \* entity -> self._scene_mapping, a dict kept as its items in insertion order
    attr_supported_features,    \* entity -> self._attr_supported_features
    cache_scene,                \* cached dynamic_scene values: scene category -> value, absent when None
    effect_read,                \* the last value the effect property returned
    \* ---- command dispatcher of one light entity (Spec)
    state_mapping,      \* self._state_mapping: vendor power value -> host state
    state_mapping_set,  \* self._state_mapping_set: host state -> vendor power value
    brightness_scale,   \* self._brightness_scale: <<low, high>>, <<>> when the attribute is not set
    cache_power,        \* cached on_off/powerSwitch value: <<v>>, <<>> when None
    pc,                 \* "idle" | "await" (suspended in async_GoveeAPI_ControlDevice) | "done"
    handler,            \* "on" | "off": the handler of the call in progress or last returned
    kwargs,             \* the keyword arguments of that call
    resume,             \* the block of async_turn_on that runs when the awaited call returns
    calls,              \* the capability commands that call has sent, in order
    results,            \* what each finished remote call gave: "ok" | "fail" | "raise"
    writes,             \* number of async_write_ha_state() calls of that call
    raised,             \* an exception reached the handler's except clause
    propagated,         \* an exception left the handler
    state_seen,         \* <<s>>: the state the handler's is_on test read, <<>> before it
    \* ---- platform setup (SpecSetup)
    store_ok,           \* hass.data[DOMAIN][entry_id][CONF_DEVICES] can be read
    api_devices,        \* the configured devices, in configuration order
    coordinators,       \* the device ids entry_data[CONF_COORDINATORS] has a key for
    setup_pc,           \* "new" | "sleeping" (in asyncio.sleep(0)) | "done"
    setup_idx,          \* index of the device whose iteration is suspended
    entities,           \* the local list `entities`
    setup_result,       \* what async_setup_entry returned: "None" | "False", "pending" before
    add_calls           \* the argument of each async_add_entities call, in order

rgbVars == <<conv_kind, conv_src, conv_mid, conv_out, conv_pc>>
regVars == <<reg_pc, reg_name, services, reg_calls, reg_before>>
entVars == <<constructed, device_cfg, cls_supported_color_modes, attr_effect_list,
             scene_mapping, attr_supported_features, cache_scene, effect_read>>
cmdVars == <<state_mapping, state_mapping_set, brightness_scale, cache_power, pc, handler,
             kwargs, resume, calls, results, writes, raised, propagated, state_seen>>
setupVars == <<store_ok, api_devices, coordinators, setup_pc, setup_idx, entities,
               setup_result, add_calls>>
vars == <<rgbVars, regVars, entVars, cmdVars, setupVars>>

-----------------------------------------------------------------------------
(* Bounds of the model *)

\* sample bytes are 0..ByteSpan, 127, 128 and 255-ByteSpan..255
ByteSpan == 2
\* number of concurrent async_registerService calls
NumTasks == 3
\* number of light entities built one after the other
NumEntities == 2
\* most configured devices of an entry
MaxDevices == 3
\* longest capability list of a device without scene options
MaxCaps == 2
\* most options over all the dynamic_scene capabilities of a device
MaxOptions == 2

-----------------------------------------------------------------------------
(* light.py 121-132: integer <-> (red, green, blue) *)

\* x >> n on a non-negative integer
Shr(x, n) == x \div (2 ^ n)
\* x << n
Shl(x, n) == x * (2 ^ n)
\* x & 255 on a non-negative integer
And255(x) == x % 256

\* a mutant of _getRGBfromI: blue read from the high byte, red from the low one
GetRGBfromI_swapped(RGBint) ==
    <<And255(RGBint), And255(Shr(RGBint, 8)), And255(Shr(RGBint, 16))>>

GetRGBfromI(RGBint) ==
    LET blue  == And255(RGBint)
        green == And255(Shr(RGBint, 8))
        red   == And255(Shr(RGBint, 16))
    IN  <<red, green, blue>>

GetIfromRGB(rgb) ==
    LET red   == rgb[1]
        green == rgb[2]
        blue  == rgb[3]
    IN  Shl(red, 16) + Shl(green, 8) + blue

SampleBytes == (0..ByteSpan) \cup {127, 128} \cup ((255 - ByteSpan)..255)
SampleTriples == SampleBytes \X SampleBytes \X SampleBytes
\* 24-bit integers whose three bytes are sample bytes
SampleInts == {r * 65536 + g * 256 + b : r \in {0, 1, 128, 255}, g \in SampleBytes, b \in SampleBytes}

RGBInit ==
    /\ conv_kind \in {"I", "RGB"}
    /\ conv_src \in (IF conv_kind = "I" THEN SampleInts ELSE SampleTriples)
    /\ conv_mid = <<>>
    /\ conv_out = <<>>
    /\ conv_pc = 0

RGBIdle ==
    /\ conv_kind = "none" /\ conv_src = <<>> /\ conv_mid = <<>>
    /\ conv_out = <<>> /\ conv_pc = 0

\* rgb_color (light.py 165): the cached integer is decomposed
Decompose ==
    /\ conv_kind = "I" /\ conv_pc = 0
    /\ conv_mid' = GetRGBfromI(conv_src)
    /\ conv_pc' = 1
    /\ UNCHANGED <<conv_kind, conv_src, conv_out>>

\* async_turn_on (light.py 248): the triple just read is packed again
Recompose ==
    /\ conv_kind = "I" /\ conv_pc = 1
    /\ conv_out' = GetIfromRGB(conv_mid)
    /\ conv_pc' = 2
    /\ UNCHANGED <<conv_kind, conv_src, conv_mid>>

\* async_turn_on (light.py 248): a requested triple is packed
Pack ==
    /\ conv_kind = "RGB" /\ conv_pc = 0
    /\ conv_mid' = GetIfromRGB(conv_src)
    /\ conv_pc' = 1
    /\ UNCHANGED <<conv_kind, conv_src, conv_out>>

\* rgb_color (light.py 165): the packed integer is read back
Unpack ==
    /\ conv_kind = "RGB" /\ conv_pc = 1
    /\ conv_out' = GetRGBfromI(conv_mid)
    /\ conv_pc' = 2
    /\ UNCHANGED <<conv_kind, conv_src, conv_mid>>

-----------------------------------------------------------------------------
(* services.py 27-39: async_registerService *)

Tasks == 1..NumTasks
ServiceNames == {"set_segment_colors", "set_poll_interval"}

\* hass.services.has_service(DOMAIN, name)
HasService(name) == name \in services

\* a mutant of the guard of line 32: the service is registered unconditionally
ShouldRegister_always(name) == TRUE

\* services.py 32: if not hass.services.has_service(DOMAIN, name)
ShouldRegister(name) == ~HasService(name)

RegInit ==
    /\ reg_pc = [t \in Tasks |-> "new"]
    /\ reg_name = [t \in Tasks |-> "none"]
    /\ reg_before \in SUBSET ServiceNames
    /\ services = reg_before
    /\ reg_calls = [n \in ServiceNames |-> 0]

RegIdle ==
    /\ reg_pc = <<>> /\ reg_name = <<>> /\ reg_before = {}
    /\ services = {} /\ reg_calls = <<>>

\* services.py 29-31: the call runs up to `await asyncio.sleep(0)` and suspends
RegisterCall(t, name) ==
    /\ reg_pc[t] = "new"
    /\ reg_pc' = [reg_pc EXCEPT ![t] = "sleeping"]
    /\ reg_name' = [reg_name EXCEPT ![t] = name]
    /\ UNCHANGED <<services, reg_calls, reg_before>>

\* services.py 32-37: resumed by the loop, the call checks and registers without
\* suspending in between
RegisterResume(t) ==
    /\ reg_pc[t] = "sleeping"
    /\ IF ShouldRegister(reg_name[t])
       THEN /\ services' = services \cup {reg_name[t]}
            /\ reg_calls' = [reg_calls EXCEPT ![reg_name[t]] = @ + 1]
       ELSE UNCHANGED <<services, reg_calls>>
    /\ reg_pc' = [reg_pc EXCEPT ![t] = "done"]
    /\ UNCHANGED <<reg_name, reg_before>>


-----------------------------------------------------------------------------
(* light.py 70-119: class attributes and _init_platform_specific *)

Entities == 1..NumEntities

T_ONOFF == "devices.capabilities.on_off"
T_RANGE == "devices.capabilities.range"
T_COLOR == "devices.capabilities.color_setting"
T_SCENE == "devices.capabilities.dynamic_scene"

\* homeassistant.components.light.SUPPORT_EFFECT (LightEntityFeature.EFFECT)
SUPPORT_EFFECT == 4

\* f | bit, for bit a power of two
BitOr(f, bit) == IF (f \div bit) % 2 = 1 THEN f ELSE f + bit

\* f"{scene_instance}_{option['name']}"
SceneName(scene_instance, name) == scene_instance \o "_" \o name

\* d.get(key): the items of d with that key (none or one)
DictItems(d, key) == {i \in 1..Len(d) : d[i].name = key}
DictHas(d, key) == DictItems(d, key) # {}
DictGet(d, key) == d[CHOOSE i \in DictItems(d, key) : TRUE]

\* d[key] = item: a new key goes last, an existing key keeps its place
DictSet(d, item) ==
    IF DictHas(d, item.name)
    THEN [i \in 1..Len(d) |-> IF d[i].name = item.name THEN item ELSE d[i]]
    ELSE Append(d, item)

\* light.py 110-117: one option of a dynamic_scene capability
AddOption(st, scene_instance, option) ==
    IF "name" \in DOMAIN option /\ "value" \in DOMAIN option
    THEN LET scene_name == SceneName(scene_instance, option.name)
         IN  [st EXCEPT
                !.effect_list = Append(@, scene_name),
                !.scene_mapping = DictSet(@, [name |-> scene_name,
                                              type |-> T_SCENE,
                                              instance |-> scene_instance,
                                              value |-> option.value])]
    ELSE st

\* light.py 109: for option in options
RECURSIVE AddOptions(_, _, _, _)
AddOptions(st, scene_instance, options, i) ==
    IF i > Len(options) THEN st
    ELSE AddOptions(AddOption(st, scene_instance, options[i]), scene_instance, options, i + 1)

\* light.py 103: cap['parameters'].get('options', [])
OptionsOf(cap) ==
    IF "options" \in DOMAIN cap.parameters THEN cap.parameters.options ELSE <<>>

\* light.py 90-119: one capability; st.modes is the class-level set
ApplyCap(st, cap) ==
    IF cap.type = T_ONOFF
    THEN [st EXCEPT !.modes = @ \cup {"onoff"}]
    ELSE IF cap.type = T_RANGE /\ cap.instance = "brightness"
    THEN [st EXCEPT !.modes = @ \cup {"brightness"}]
    ELSE IF cap.type = T_COLOR /\ cap.instance = "colorRgb"
    THEN [st EXCEPT !.modes = @ \cup {"rgb"}]
    ELSE IF cap.type = T_COLOR /\ cap.instance = "colorTemperatureK"
    THEN [st EXCEPT !.modes = @ \cup {"color_temp"}]
    ELSE IF cap.type = T_SCENE
    THEN AddOptions([st EXCEPT !.features = BitOr(@, SUPPORT_EFFECT)],
                    cap.instance, OptionsOf(cap), 1)
    ELSE st

\* light.py 89: for cap in capabilities
RECURSIVE ApplyCaps(_, _, _)
ApplyCaps(st, capabilities, i) ==
    IF i > Len(capabilities) THEN st
    ELSE ApplyCaps(ApplyCap(st, capabilities[i]), capabilities, i + 1)

\* light.py 79-119: the instance gets a fresh effect list, scene mapping and
\* feature flags (lines 85-87); the colour modes are added to the set the class
\* attribute of line 75 is bound to, which no instance rebinds
InitPlatformSpecific(capabilities, class_modes) ==
    ApplyCaps([modes |-> class_modes, effect_list |-> <<>>,
               scene_mapping |-> <<>>, features |-> 0], capabilities, 1)

\* LightEntity.supported_color_modes: self._attr_supported_color_modes, found on the class
SupportedColorModes(e) == cls_supported_color_modes

\* GoveeLifeLight(hass, entry, coordinator, device_cfg, platform=platform) (light.py 58)
Construct(e, capabilities) ==
    /\ ~constructed[e]
    /\ LET st == InitPlatformSpecific(capabilities, cls_supported_color_modes)
       IN  /\ cls_supported_color_modes' = st.modes
           /\ attr_effect_list' = [attr_effect_list EXCEPT ![e] = st.effect_list]
           /\ scene_mapping' = [scene_mapping EXCEPT ![e] = st.scene_mapping]
           /\ attr_supported_features' = [attr_supported_features EXCEPT ![e] = st.features]
    /\ constructed' = [constructed EXCEPT ![e] = TRUE]
    /\ device_cfg' = [device_cfg EXCEPT ![e] = capabilities]
    /\ UNCHANGED <<cache_scene, effect_read>>

-----------------------------------------------------------------------------
(* light.py 167-194: the effect property *)

\* a mutant of line 175: the categories scanned in another order
SceneTypes_reordered == <<"diyScene", "lightScene", "snapshot">>

\* light.py 175
SceneTypes == <<"lightScene", "diyScene", "snapshot">>

\* light.py 188-192: the first item of the mapping, in insertion order, with that
\* instance and value; <<>> when the loop ends without returning
RECURSIVE ScanMapping(_, _, _, _)
ScanMapping(d, scene_type, value, i) ==
    IF i > Len(d) THEN <<>>
    ELSE IF d[i].instance = scene_type /\ d[i].value = value THEN <<d[i].name>>
    ELSE ScanMapping(d, scene_type, value, i + 1)

\* light.py 175-192: for scene_type in [...]
RECURSIVE ScanSceneTypes(_, _, _)
ScanSceneTypes(d, cache, k) ==
    IF k > Len(SceneTypes) THEN <<>>
    ELSE LET scene_type == SceneTypes[k]
             found == IF scene_type \in DOMAIN cache
                      THEN ScanMapping(d, scene_type, cache[scene_type], 1)
                      ELSE <<>>
         IN  IF found # <<>> THEN found ELSE ScanSceneTypes(d, cache, k + 1)

\* light.py 167-194; None is <<>>, a name n is <<n>>
Effect(e, cache) ==
    IF attr_effect_list[e] = <<>> THEN <<>>
    ELSE ScanSceneTypes(scene_mapping[e], cache, 1)

\* the host reads the effect property while the cached scene values are `cache`;
\* the property changes nothing, so one read per behaviour shows all of them
ReadEffect(e, cache) ==
    /\ constructed[e]
    /\ ~effect_read.done
    /\ cache_scene' = cache
    /\ effect_read' = [done |-> TRUE, entity |-> e, value |-> Effect(e, cache)]
    /\ UNCHANGED <<constructed, device_cfg, cls_supported_color_modes, attr_effect_list,
                   scene_mapping, attr_supported_features>>

(* Inputs: capability lists and cached scene values *)

\* option values and cached scene values
Values == {1, 2}
\* two options of one name, two options of one value, an option without a name
\* and an option without a value
OptionChoices ==
    { [name |-> "A", value |-> 1], [name |-> "A", value |-> 2], [name |-> "B", value |-> 1],
      [value |-> 1], [name |-> "A"] }

SceneInstances == {"lightScene", "diyScene", "snapshot"}

SceneCap(scene_instance, options) ==
    [type |-> T_SCENE, instance |-> scene_instance, parameters |-> [options |-> options]]

\* the capabilities that are not scenes, a range that is not brightness among them
PlainCaps ==
    { [type |-> T_ONOFF, instance |-> "powerSwitch", parameters |-> [dataType |-> "ENUM"]],
      [type |-> T_RANGE, instance |-> "brightness", parameters |-> [dataType |-> "INTEGER"]],
      [type |-> T_RANGE, instance |-> "humidity", parameters |-> [dataType |-> "INTEGER"]],
      [type |-> T_COLOR, instance |-> "colorRgb", parameters |-> [dataType |-> "INTEGER"]],
      [type |-> T_COLOR, instance |-> "colorTemperatureK", parameters |-> [dataType |-> "INTEGER"]] }

\* a dynamic_scene capability whose parameters hold no options
BareSceneCap == [type |-> T_SCENE, instance |-> "lightScene", parameters |-> [dataType |-> "ENUM"]]

\* the scene categories in the order the device lists them
InstanceOrder == <<"lightScene", "diyScene", "snapshot">>

\* capability lists with at most one dynamic_scene capability per category, the
\* categories from the k-th on, and at most `budget` options in all
RECURSIVE SceneCfgs(_, _)
SceneCfgs(k, budget) ==
    IF k > Len(InstanceOrder) THEN {<<>>}
    ELSE SceneCfgs(k + 1, budget)
         \cup UNION { { <<SceneCap(InstanceOrder[k], opts)>> \o rest :
                          opts \in [1..n -> OptionChoices],
                          rest \in SceneCfgs(k + 1, budget - n) } : n \in 0..budget }

SceneCapLists == SceneCfgs(1, MaxOptions)

\* capability lists of the plain capabilities and the scene without options
RECURSIVE PlainCfgs(_)
PlainCfgs(n) ==
    IF n = 0 THEN {<<>>}
    ELSE { <<c>> \o rest : c \in PlainCaps \cup {BareSceneCap}, rest \in PlainCfgs(n - 1) }

PlainCapLists == UNION { PlainCfgs(n) : n \in 0..MaxCaps }

\* cached values of the three scene categories, each absent or a value
SceneCaches == UNION { [cats -> Values] : cats \in SUBSET SceneInstances }

EntInit ==
    /\ constructed = [e \in Entities |-> FALSE]
    /\ device_cfg = [e \in Entities |-> <<>>]
    /\ cls_supported_color_modes = {}
    /\ attr_effect_list = [e \in Entities |-> <<>>]
    /\ scene_mapping = [e \in Entities |-> <<>>]
    /\ attr_supported_features = [e \in Entities |-> 0]
    /\ cache_scene = <<>>
    /\ effect_read = [done |-> FALSE, entity |-> 0, value |-> <<>>]

-----------------------------------------------------------------------------
(* light.py 134-147: state and is_on *)

STATE_ON == "on"
STATE_OFF == "off"
STATE_UNKNOWN == "unknown"

\* light.py 73-74: the two dicts as the class body binds them; no statement of
\* light.py adds a key to either
EmptyMapping == [v \in {} |-> STATE_UNKNOWN]

\* the mapping of the specification's data model ("a fixed mapping between
\* vendor power values and the host's on/off enumeration"), as code outside
\* light.py would have to fill it
VendorMapping == (1 :> STATE_ON) @@ (0 :> STATE_OFF)
VendorMappingSet == (STATE_ON :> 1) @@ (STATE_OFF :> 0)

\* light.py 137-142: self._state_mapping.get(value, STATE_UNKNOWN); a missing
\* cached value is None, which is no key
State ==
    IF cache_power # <<>> /\ cache_power[1] \in DOMAIN state_mapping
    THEN state_mapping[cache_power[1]]
    ELSE STATE_UNKNOWN

\* light.py 147
IsOn == State = STATE_ON

-----------------------------------------------------------------------------
(* light.py 207-282: async_turn_on and async_turn_off *)

\* the entity the commands go to
Self == 1

\* math.ceil(brightness_to_value(scale, b)) (light.py 230); brightness_to_value is
\* scale_to_ranged_value((1, 255), scale, b) = b * (high - low + 1) / 255 + low - 1
BrightnessToValue(scale, b) ==
    LET states == scale[2] - scale[1] + 1
    IN  ((b * states + 254) \div 255) + scale[1] - 1

\* What one block of a handler does: nothing, raise, or send a command and await it
Skip == [act |-> "skip"]
Raise == [act |-> "raise"]
Call(cap) == [act |-> "call", cap |-> cap]

\* light.py 213-224
EffectBlock(kw) ==
    IF "effect" \in DOMAIN kw /\ DictHas(scene_mapping[Self], kw.effect)
    THEN LET scene_data == DictGet(scene_mapping[Self], kw.effect)
         IN  Call([type |-> T_SCENE, instance |-> scene_data.instance, value |-> scene_data.value])
    ELSE Skip

\* light.py 226-233; reading self._brightness_scale raises when it is not set
BrightnessBlock(kw) ==
    IF "brightness" \in DOMAIN kw
    THEN IF brightness_scale = <<>> THEN Raise
         ELSE Call([type |-> T_RANGE, instance |-> "brightness",
                    value |-> BrightnessToValue(brightness_scale, kw.brightness)])
    ELSE Skip

\* light.py 235-242
ColorTempBlock(kw) ==
    IF "color_temp_kelvin" \in DOMAIN kw
    THEN Call([type |-> T_COLOR, instance |-> "colorTemperatureK", value |-> kw.color_temp_kelvin])
    ELSE Skip

\* light.py 244-251
RgbBlock(kw) ==
    IF "rgb_color" \in DOMAIN kw
    THEN Call([type |-> T_COLOR, instance |-> "colorRgb", value |-> GetIfromRGB(kw.rgb_color)])
    ELSE Skip

\* light.py 253-262; self._state_mapping_set[STATE_ON] raises KeyError without the key
PowerOnBlock ==
    IF ~IsOn
    THEN IF STATE_ON \in DOMAIN state_mapping_set
         THEN Call([type |-> T_ONOFF, instance |-> "powerSwitch", value |-> state_mapping_set[STATE_ON]])
         ELSE Raise
    ELSE Skip

\* light.py 271-280
PowerOffBlock ==
    IF IsOn
    THEN IF STATE_OFF \in DOMAIN state_mapping_set
         THEN Call([type |-> T_ONOFF, instance |-> "powerSwitch", value |-> state_mapping_set[STATE_OFF]])
         ELSE Raise
    ELSE Skip

\* the blocks of async_turn_on in program order
TurnOnBlock(i, kw) ==
    CASE i = 1 -> EffectBlock(kw)
      [] i = 2 -> BrightnessBlock(kw)
      [] i = 3 -> ColorTempBlock(kw)
      [] i = 4 -> RgbBlock(kw)
      [] i = 5 -> PowerOnBlock

NumTurnOnBlocks == 5
PowerBlock == 5

\* async_turn_on from block i up to its next await, raise or return
RECURSIVE RunTurnOn(_, _)
RunTurnOn(i, kw) ==
    IF i > NumTurnOnBlocks THEN [act |-> "return", block |-> i, last |-> i - 1]
    ELSE LET b == TurnOnBlock(i, kw)
         IN  IF b.act = "skip" THEN RunTurnOn(i + 1, kw)
             ELSE [act |-> b.act, block |-> i, last |-> i] @@ b

\* async_turn_off up to its await, raise or return
RunTurnOff ==
    LET b == PowerOffBlock
    IN  IF b.act = "skip" THEN [act |-> "return", block |-> 1, last |-> 1]
        ELSE [act |-> b.act, block |-> 1, last |-> 1] @@ b

\* a mutant of the except clauses: async_turn_off lets the exception through
Catches_turn_on_only(h) == h = "on"

\* light.py 263 and 281: except Exception
Catches(h) == h \in {"on", "off"}

\* a mutant of lines 223-224: the host is notified whatever the call returned
Notifies_always(outcome) == outcome \in {"ok", "fail"}

\* light.py 223-224, 232-233, 241-242, 250-251, 259-260, 277-278:
\* if await async_GoveeAPI_ControlDevice(...): self.async_write_ha_state()
Notifies(outcome) == outcome = "ok"

\* what async_GoveeAPI_ControlDevice gives its caller: a truthy or a falsy
\* value, or an exception
ControlOutcomes == {"ok", "fail", "raise"}

\* the handler goes on from `step`: it awaits the command it sent, or it is over
Proceed(h, step, sent) ==
    /\ pc' = IF step.act = "call" THEN "await" ELSE "done"
    /\ calls' = IF step.act = "call" THEN Append(sent, step.cap) ELSE sent
    /\ resume' = IF step.act = "call" THEN step.block + 1 ELSE 0
    /\ raised' = (step.act = "raise")
    /\ propagated' = (step.act = "raise" /\ ~Catches(h))

\* whether running async_turn_on from block `start` as far as `step` has
\* evaluated the is_on test of the power block (light.py 253)
TestsIsOn(start, step) == start <= PowerBlock /\ step.last >= PowerBlock

\* the keyword arguments of a call: each attribute absent or present; an effect
\* name is one of the scene mapping or one it does not hold
KwargChoices ==
    { e @@ b @@ c @@ r :
        e \in {<<>>} \cup {[effect |-> n] : n \in {"lightScene_A", "lightScene_gone"}},
        b \in {<<>>} \cup {[brightness |-> v] : v \in {1, 128, 255}},
        c \in {<<>>} \cup {[color_temp_kelvin |-> v] : v \in {2700}},
        r \in {<<>>} \cup {[rgb_color |-> v] : v \in {<<255, 128, 0>>}} }

\* the host calls async_turn_on(**kw); the handler runs to its first await
AsyncTurnOn(kw) ==
    /\ pc \in {"idle", "done"}
    /\ handler' = "on"
    /\ kwargs' = kw
    /\ results' = <<>>
    /\ writes' = 0
    /\ LET step == RunTurnOn(1, kw)
       IN  /\ Proceed("on", step, <<>>)
           /\ state_seen' = IF TestsIsOn(1, step) THEN <<State>> ELSE <<>>
    /\ UNCHANGED <<state_mapping, state_mapping_set, brightness_scale, cache_power>>

\* the host calls async_turn_off(); the handler runs to its await
AsyncTurnOff ==
    /\ pc \in {"idle", "done"}
    /\ handler' = "off"
    /\ kwargs' = <<>>
    /\ results' = <<>>
    /\ writes' = 0
    /\ Proceed("off", RunTurnOff, <<>>)
    /\ state_seen' = <<State>>
    /\ UNCHANGED <<state_mapping, state_mapping_set, brightness_scale, cache_power>>

\* the awaited async_GoveeAPI_ControlDevice ends and the handler runs on to its
\* next await, or to its end
ControlDeviceReturn(outcome) ==
    /\ pc = "await"
    /\ results' = Append(results, outcome)
    /\ IF outcome = "raise"
       THEN /\ Proceed(handler, Raise @@ [block |-> resume - 1, last |-> resume - 1], calls)
            /\ UNCHANGED <<writes, state_seen>>
       ELSE LET step == IF handler = "on" THEN RunTurnOn(resume, kwargs)
                        ELSE [act |-> "return", block |-> resume, last |-> resume - 1]
            IN  /\ writes' = IF Notifies(outcome) THEN writes + 1 ELSE writes
                /\ Proceed(handler, step, calls)
                /\ state_seen' = IF handler = "on" /\ TestsIsOn(resume, step)
                                 THEN <<State>> ELSE state_seen
    /\ UNCHANGED <<state_mapping, state_mapping_set, brightness_scale, cache_power, handler, kwargs>>

PowerValues == {0, 1, 2}
CachedPower == {<<>>} \cup {<<v>> : v \in PowerValues}

\* the coordinator refreshes the cached state
CacheUpdate(c) ==
    /\ cache_power # c
    /\ cache_power' = c
    /\ UNCHANGED <<state_mapping, state_mapping_set, brightness_scale, pc, handler, kwargs,
                   resume, calls, results, writes, raised, propagated, state_seen>>

\* the device of the dispatcher: every capability, and one light scene
LightCfg ==
    << [type |-> T_ONOFF, instance |-> "powerSwitch", parameters |-> [dataType |-> "ENUM"]],
       [type |-> T_RANGE, instance |-> "brightness", parameters |-> [dataType |-> "INTEGER"]],
       [type |-> T_COLOR, instance |-> "colorRgb", parameters |-> [dataType |-> "INTEGER"]],
       [type |-> T_COLOR, instance |-> "colorTemperatureK", parameters |-> [dataType |-> "INTEGER"]],
       SceneCap("lightScene", <<[name |-> "A", value |-> 1]>>) >>

CmdInit ==
    /\ \/ state_mapping = EmptyMapping /\ state_mapping_set = EmptyMapping
       \/ state_mapping = VendorMapping /\ state_mapping_set = VendorMappingSet
    /\ brightness_scale \in {<<>>, <<1, 100>>}
    /\ cache_power \in CachedPower
    /\ pc = "idle" /\ handler = "none" /\ kwargs = <<>> /\ resume = 0
    /\ calls = <<>> /\ results = <<>> /\ writes = 0
    /\ raised = FALSE /\ propagated = FALSE /\ state_seen = <<>>

CmdIdle ==
    /\ state_mapping = EmptyMapping /\ state_mapping_set = EmptyMapping
    /\ brightness_scale = <<>> /\ cache_power = <<>>
    /\ pc = "idle" /\ handler = "none" /\ kwargs = <<>> /\ resume = 0
    /\ calls = <<>> /\ results = <<>> /\ writes = 0
    /\ raised = FALSE /\ propagated = FALSE /\ state_seen = <<>>

\* the entity of the dispatcher, after GoveeLifeLight(...) has run for LightCfg
SelfInit ==
    LET st == InitPlatformSpecific(LightCfg, {})
    IN  /\ constructed = [e \in Entities |-> e = Self]
        /\ device_cfg = [e \in Entities |-> IF e = Self THEN LightCfg ELSE <<>>]
        /\ cls_supported_color_modes = st.modes
        /\ attr_effect_list = [e \in Entities |-> IF e = Self THEN st.effect_list ELSE <<>>]
        /\ scene_mapping = [e \in Entities |-> IF e = Self THEN st.scene_mapping ELSE <<>>]
        /\ attr_supported_features = [e \in Entities |-> IF e = Self THEN st.features ELSE 0]
        /\ cache_scene = <<>>
        /\ effect_read = [done |-> FALSE, entity |-> 0, value |-> <<>>]

-----------------------------------------------------------------------------
(* light.py 35-68: async_setup_entry *)

\* light.py 36
platform_device_types == {"devices.types.light"}

\* light.py 53: device_cfg.get('type', STATE_UNKNOWN)
DeviceType(dev) ==
    IF "type" \in DOMAIN dev THEN dev.type ELSE STATE_UNKNOWN

\* a mutant of lines 61-63: a device whose setup raises is passed over
DeviceStep_skip_failed(dev) ==
    IF DeviceType(dev) \notin platform_device_types THEN "continue"
    ELSE IF dev.device \notin coordinators THEN "continue"
    ELSE "append"

\* light.py 52-63: one iteration of the loop; entry_data[CONF_COORDINATORS][d]
\* raises KeyError for a device without a coordinator
DeviceStep(dev) ==
    IF DeviceType(dev) \notin platform_device_types THEN "continue"
    ELSE IF dev.device \notin coordinators THEN "raise"
    ELSE "append"

\* GoveeLifeLight(hass, entry, coordinator, device_cfg, platform=platform)
LightEntityOf(dev) == [device |-> dev.device]

\* light.py 51-68 from device i up to the next await or the return
RECURSIVE RunSetup(_, _)
RunSetup(i, built) ==
    IF i > Len(api_devices)
    THEN [at |-> "return", result |-> "None", entities |-> built,
          added |-> IF built = <<>> THEN <<>> ELSE <<built>>, idx |-> i]
    ELSE LET todo == DeviceStep(api_devices[i])
         IN  IF todo = "continue" THEN RunSetup(i + 1, built)
             ELSE IF todo = "raise"
             THEN [at |-> "return", result |-> "False", entities |-> built, added |-> <<>>, idx |-> i]
             ELSE [at |-> "sleep", result |-> "pending",
                   entities |-> Append(built, LightEntityOf(api_devices[i])), added |-> <<>>, idx |-> i]

SetupProceed(r) ==
    /\ setup_pc' = IF r.at = "sleep" THEN "sleeping" ELSE "done"
    /\ setup_idx' = r.idx
    /\ entities' = r.entities
    /\ setup_result' = r.result
    /\ add_calls' = add_calls \o r.added

\* the host calls async_setup_entry; it runs to its first await or to its return
SetupEntry ==
    /\ setup_pc = "new"
    /\ IF ~store_ok
       THEN /\ setup_pc' = "done"
            /\ setup_result' = "False"
            /\ UNCHANGED <<setup_idx, entities, add_calls>>
       ELSE SetupProceed(RunSetup(1, <<>>))
    /\ UNCHANGED <<store_ok, api_devices, coordinators>>

\* the loop resumes the setup after asyncio.sleep(0)
SetupResume ==
    /\ setup_pc = "sleeping"
    /\ SetupProceed(RunSetup(setup_idx + 1, entities))
    /\ UNCHANGED <<store_ok, api_devices, coordinators>>

DeviceIds == {"d1", "d2"}
\* lights and sensors, and a device without a type
DeviceChoices ==
    [type : {"devices.types.light", "devices.types.sensor"}, device : DeviceIds]
    \cup {[device |-> "d1"]}

SetupInit ==
    /\ store_ok \in BOOLEAN
    /\ api_devices \in UNION { [1..n -> DeviceChoices] : n \in 0..MaxDevices }
    /\ coordinators \in SUBSET DeviceIds
    /\ setup_pc = "new" /\ setup_idx = 0 /\ entities = <<>>
    /\ setup_result = "pending" /\ add_calls = <<>>

SetupIdle ==
    /\ store_ok = FALSE /\ api_devices = <<>> /\ coordinators = {}
    /\ setup_pc = "new" /\ setup_idx = 0 /\ entities = <<>>
    /\ setup_result = "pending" /\ add_calls = <<>>

-----------------------------------------------------------------------------
(* Specifications *)

Init == CmdInit /\ SelfInit /\ RGBIdle /\ RegIdle /\ SetupIdle

Next ==
    \/ \E kw \in KwargChoices : AsyncTurnOn(kw) /\ UNCHANGED <<rgbVars, regVars, entVars, setupVars>>
    \/ AsyncTurnOff /\ UNCHANGED <<rgbVars, regVars, entVars, setupVars>>
    \/ \E outcome \in ControlOutcomes : ControlDeviceReturn(outcome) /\ UNCHANGED <<rgbVars, regVars, entVars, setupVars>>
    \/ \E c \in CachedPower : CacheUpdate(c) /\ UNCHANGED <<rgbVars, regVars, entVars, setupVars>>

Spec == Init /\ [][Next]_vars

NextRGB ==
    \/ Decompose /\ UNCHANGED <<regVars, entVars, cmdVars, setupVars>>
    \/ Recompose /\ UNCHANGED <<regVars, entVars, cmdVars, setupVars>>
    \/ Pack /\ UNCHANGED <<regVars, entVars, cmdVars, setupVars>>
    \/ Unpack /\ UNCHANGED <<regVars, entVars, cmdVars, setupVars>>

InitRGB == RGBInit /\ RegIdle /\ EntInit /\ CmdIdle /\ SetupIdle

SpecRGB == InitRGB /\ [][NextRGB]_vars

NextReg ==
    \/ \E t \in Tasks, n \in ServiceNames : RegisterCall(t, n) /\ UNCHANGED <<rgbVars, entVars, cmdVars, setupVars>>
    \/ \E t \in Tasks : RegisterResume(t) /\ UNCHANGED <<rgbVars, entVars, cmdVars, setupVars>>

InitReg == RegInit /\ RGBIdle /\ EntInit /\ CmdIdle /\ SetupIdle

SpecReg == InitReg /\ [][NextReg]_vars

\* light entities built one after the other from plain capability lists
NextModes ==
    \E e \in {x \in Entities : ~constructed[x]} :
        \E caps \in PlainCapLists : Construct(e, caps) /\ UNCHANGED <<rgbVars, regVars, cmdVars, setupVars>>

InitModes == EntInit /\ RGBIdle /\ RegIdle /\ CmdIdle /\ SetupIdle

SpecModes == InitModes /\ [][NextModes]_vars

\* one light entity with scenes, and the host reading its effect
NextEffect ==
    \/ /\ ~constructed[1]
       /\ \E caps \in SceneCapLists : Construct(1, caps) /\ UNCHANGED <<rgbVars, regVars, cmdVars, setupVars>>
    \/ /\ constructed[1] /\ ~effect_read.done
       /\ \E cache \in SceneCaches : ReadEffect(1, cache) /\ UNCHANGED <<rgbVars, regVars, cmdVars, setupVars>>

NextSetup ==
    \/ SetupEntry /\ UNCHANGED <<rgbVars, regVars, entVars, cmdVars>>
    \/ SetupResume /\ UNCHANGED <<rgbVars, regVars, entVars, cmdVars>>

InitSetup == SetupInit /\ EntInit /\ RGBIdle /\ RegIdle /\ CmdIdle

SpecSetup == InitSetup /\ [][NextSetup]_vars

InitEffect == EntInit /\ RGBIdle /\ RegIdle /\ CmdIdle /\ SetupIdle

SpecEffect == InitEffect /\ [][NextEffect]_vars

-----------------------------------------------------------------------------
(* Claims *)

Range(f) == {f[i] : i \in DOMAIN f}
NoRepeat(q) == \A i, j \in 1..Len(q) : q[i] = q[j] => i = j

\* the attribute a capability command sets
AttrOf(cap) == IF cap.type = T_SCENE THEN "effect" ELSE cap.instance
AttrsOf(q) == [i \in 1..Len(q) |-> AttrOf(q[i])]

AttrOrder == <<"effect", "brightness", "colorTemperatureK", "colorRgb", "powerSwitch">>

\* the commands a turn-on request asks for, given whether the device is on
Wanted(kw, on, a) ==
    CASE a = "effect" -> /\ "effect" \in DOMAIN kw
                         /\ \E i \in 1..Len(scene_mapping[Self]) :
                               scene_mapping[Self][i].name = kw.effect
      [] a = "brightness" -> "brightness" \in DOMAIN kw
      [] a = "colorTemperatureK" -> "color_temp_kelvin" \in DOMAIN kw
      [] a = "colorRgb" -> "rgb_color" \in DOMAIN kw
      [] a = "powerSwitch" -> ~on

ExpectedAttrs(kw, on) ==
    LET Keep(a) == Wanted(kw, on, a) IN SelectSeq(AttrOrder, Keep)

NoRemoteRaise == \A i \in 1..Len(results) : results[i] # "raise"

\* C1: the remote calls of an async_turn_on call are exactly the subsequence of
\* (effect, brightness, colorTemperatureK, colorRgb, powerSwitch) of the
\* attributes the request holds, the powerSwitch call last and only if the
\* device is not on. Stated of the calls that have returned without any remote
\* call raising.
C1_CallSequence ==
    (handler = "on" /\ pc = "done" /\ NoRemoteRaise) =>
        /\ state_seen # <<>>
        /\ AttrsOf(calls) = ExpectedAttrs(kwargs, state_seen = <<STATE_ON>>)

\* C2: the host is notified once after each remote call that returned success
\* and never after one that returned failure, and a failed call does not keep
\* the remaining attribute commands from being issued: a handler that ends
\* without an exception has issued every command of the request.
C2_NotifyOnSuccess ==
    /\ writes = Cardinality({i \in 1..Len(results) : results[i] = "ok"})
    /\ (handler = "on" /\ pc = "done" /\ ~raised) =>
          AttrsOf(calls) = ExpectedAttrs(kwargs, state_seen = <<STATE_ON>>)
    /\ (handler = "off" /\ pc = "done" /\ ~raised) =>
          AttrsOf(calls) = IF state_seen = <<STATE_ON>> THEN <<"powerSwitch">> ELSE <<>>

\* a turn-on has ended after a failed call, two successful ones and two notifications
C2_Witness ==
    /\ handler = "on" /\ pc = "done" /\ ~raised
    /\ results = <<"fail", "ok", "ok">>
    /\ writes = 2
    /\ Len(calls) = 3

\* C3: no exception leaves async_turn_on or async_turn_off; when a remote call
\* or a value translation raises, the handler has returned, no command is sent
\* twice, and until the next call of a handler no further command is sent and
\* no further notification is made, the commands already sent staying sent.
C3_Swallowed ==
    /\ [](/\ ~propagated
          /\ raised => pc = "done"
          /\ NoRepeat(AttrsOf(calls))
          /\ Len(results) <= Len(calls))
    /\ [][/\ (pc = "await" /\ raised') =>
                /\ calls' = calls
                /\ results'[Len(results')] = "raise" => writes' = writes
          /\ raised => \/ (calls' = calls /\ writes' = writes /\ results' = results)
                       \/ (pc' # pc \/ results' = <<>>)]_vars

\* the second remote call of a turn-on raised after the first had succeeded
C3_Witness ==
    /\ raised /\ pc = "done" /\ handler = "on"
    /\ results = <<"ok", "raise">>
    /\ Len(calls) = 2 /\ writes = 1
    /\ Len(ExpectedAttrs(kwargs, FALSE)) > 2

\* C4: the effect-name list has no duplicates, and for every option with a name
\* and a value of every dynamic_scene capability the scene mapping entry of its
\* effect name holds that capability's instance and that option's value.
C4_UniqueScenes ==
    constructed[1] =>
        /\ NoRepeat(attr_effect_list[1])
        /\ \A cap \in Range(device_cfg[1]) :
              cap.type = T_SCENE =>
                 \A o \in Range(OptionsOf(cap)) :
                    ("name" \in DOMAIN o /\ "value" \in DOMAIN o) =>
                       \E i \in 1..Len(scene_mapping[1]) :
                          /\ scene_mapping[1][i].name = SceneName(cap.instance, o.name)
                          /\ scene_mapping[1][i].instance = cap.instance
                          /\ scene_mapping[1][i].value = o.value

\* C6: registering the same service name more than once through
\* async_registerService results in exactly one registration with the host,
\* whatever the interleaving of the calls: async_register is called at most
\* once for a name, and exactly once when a call for it has ended and the
\* service was not registered before.
C6_RegisteredOnce ==
    \A n \in ServiceNames :
        /\ reg_calls[n] <= 1
        /\ (\E t \in Tasks : reg_pc[t] = "done" /\ reg_name[t] = n) =>
              /\ n \in services
              /\ reg_calls[n] = IF n \in reg_before THEN 0 ELSE 1

\* two calls for one name, suspended at the same time, have both ended
C6_Witness ==
    \E t, u \in Tasks :
        /\ t # u
        /\ reg_pc[t] = "done" /\ reg_pc[u] = "done"
        /\ reg_name[t] = reg_name[u]
        /\ reg_name[t] \notin reg_before
        /\ reg_calls[reg_name[t]] = 1

\* C7: for a cached powerSwitch value that is no key of the power-state mapping
\* (a missing value too) the state is "unknown" and is_on is false, so that
\* async_turn_on issues the power-on command and async_turn_off issues none.
C7_UnknownState ==
    state_seen = <<STATE_UNKNOWN>> =>
        /\ handler = "on" =>
              /\ calls # <<>>
              /\ calls[Len(calls)].type = T_ONOFF
              /\ calls[Len(calls)].instance = "powerSwitch"
        /\ handler = "off" => calls = <<>>

\* the colour modes a capability list stands for
OwnModes(capabilities) ==
    {m \in {"onoff", "brightness", "rgb", "color_temp"} :
        \E cap \in Range(capabilities) :
            \/ m = "onoff" /\ cap.type = T_ONOFF
            \/ m = "brightness" /\ cap.type = T_RANGE /\ cap.instance = "brightness"
            \/ m = "rgb" /\ cap.type = T_COLOR /\ cap.instance = "colorRgb"
            \/ m = "color_temp" /\ cap.type = T_COLOR /\ cap.instance = "colorTemperatureK"}

\* C8: the supported colour modes of each initialised entity are exactly the
\* modes of its own capability list; initialising one device never adds a
\* colour mode to another device's entity.
C8_OwnColorModes ==
    \A e \in Entities : constructed[e] => SupportedColorModes(e) = OwnModes(device_cfg[e])

\* the items of the scene mapping that match the cached value of a category
Matching(e, scene_type) ==
    {i \in 1..Len(scene_mapping[e]) :
        /\ scene_type \in DOMAIN cache_scene
        /\ scene_mapping[e][i].instance = scene_type
        /\ scene_mapping[e][i].value = cache_scene[scene_type]}

\* C9: the effect property returns the name of the first scene-mapping entry
\* matching the cached value of the first category, in the order lightScene,
\* diyScene, snapshot, that has a matching entry; it returns none when the effect
\* list is empty, when every cached value is absent and when nothing matches;
\* a name it returns is in the effect list.
C9_FirstMatch ==
    effect_read.done =>
        LET e == effect_read.entity
            order == <<"lightScene", "diyScene", "snapshot">>
            hits == {k \in 1..3 : Matching(e, order[k]) # {}}
        IN  IF attr_effect_list[e] = <<>> \/ hits = {}
            THEN effect_read.value = <<>>
            ELSE LET k == CHOOSE x \in hits : \A y \in hits : x <= y
                     i == CHOOSE x \in Matching(e, order[k]) :
                             \A y \in Matching(e, order[k]) : x <= y
                 IN  /\ effect_read.value = <<scene_mapping[e][i].name>>
                     /\ effect_read.value[1] \in Range(attr_effect_list[e])

\* the effect was read while the cached values of diyScene and snapshot both
\* matched an entry and that of lightScene matched none
C9_Witness ==
    /\ effect_read.done
    /\ effect_read.value # <<>>
    /\ Cardinality({c \in SceneInstances : Matching(effect_read.entity, c) # {}}) >= 2
    /\ Matching(effect_read.entity, "lightScene") = {}

\* the light devices of the configuration, in order
IsLight(dev) == "type" \in DOMAIN dev /\ dev.type = "devices.types.light"
LightDevices == SelectSeq(api_devices, IsLight)
SetupFails ==
    \/ ~store_ok
    \/ \E i \in 1..Len(LightDevices) : LightDevices[i].device \notin coordinators

\* C10: async_setup_entry calls async_add_entities at most once, with one entity
\* per configured light device in configuration order; without a light device
\* it returns None, and when the device list cannot be read or the setup of a
\* device raises it returns False, in both cases without calling
\* async_add_entities.
C10_SetupEntry ==
    /\ Len(add_calls) <= 1
    /\ setup_pc # "done" => add_calls = <<>>
    /\ setup_pc = "done" =>
          IF SetupFails
          THEN setup_result = "False" /\ add_calls = <<>>
          ELSE /\ setup_result = "None"
               /\ add_calls = IF LightDevices = <<>> THEN <<>>
                              ELSE << [i \in 1..Len(LightDevices) |->
                                          [device |-> LightDevices[i].device]] >>

\* the setup returned False with an entity already built and nothing registered
C10_Witness ==
    /\ setup_pc = "done"
    /\ setup_result = "False"
    /\ entities # <<>>
    /\ add_calls = <<>>

\* C5: for every 24-bit integer N, _getIfromRGB(_getRGBfromI(N)) = N, with red
\* taken from the high byte, green from the middle byte and blue from the low
\* byte; and for every triple of bytes, _getRGBfromI(_getIfromRGB(t)) = t.
C5_RoundTrip ==
    /\ (conv_kind = "I" /\ conv_pc >= 1) =>
          /\ conv_mid[1] = conv_src \div 65536
          /\ conv_mid[2] = (conv_src \div 256) % 256
          /\ conv_mid[3] = conv_src % 256
          /\ conv_mid[1] * 65536 + conv_mid[2] * 256 + conv_mid[3] = conv_src
    /\ conv_pc = 2 => conv_out = conv_src

\* an integer of three different bytes has gone through both conversions
C5_Witness ==
    /\ conv_pc = 2
    /\ conv_kind = "I"
    /\ conv_mid[1] # conv_mid[3] /\ conv_mid[1] # conv_mid[2]
    /\ conv_src > 65536

====
